---- MODULE Spec2Model ----
(***************************************************************************)
(* Model of the pump CPQ conversation agent (src/src/agent/react-agent.ts) *)
(* and of the deterministic tools it calls (src/unnamed/part_002).         *)
(*                                                                         *)
(* One ReActAgent session is modelled.  `state` is the AgentState record,  *)
(* `result` is what the last step() call returned.  The language model is  *)
(* the environment: every call to it is an input of the Step actions       *)
(* (what it extracted, whether it threw, which keywords its text holds).   *)
(*                                                                         *)
(* Further specifications follow the session: a second session beside the *)
(* first (SpecSessions), the tools and the selectConfiguration activity as *)
(* functions (SpecTools), one execution of quoteWorkflow with its signals  *)
(* (SpecWorkflow), think() as a function (SpecThink), the session with a   *)
(* cooperative user (SpecCooperative), and calculatePricing with its       *)
(* prices (SpecPricing).                                                   *)
(***************************************************************************)
EXTENDS Integers, Sequences, FiniteSets, TLC

(***************************************************************************)
(* Values.  A JavaScript string field is undefined, '' or a value; a       *)
(* numeric field (gpm, headFt) is modelled by its number, 0 when it is     *)
(* undefined (the code reads it only through `!x` and `x || 0`).           *)
(***************************************************************************)
Undef == "undefined"
Empty == ""

\* null of an object-valued field (configuration, validationResult, pricing).
Null == [null |-> TRUE]

\* Bound of the model: how far out of order the user answers.  A reply
\* carries requirement fields that are already set, the first missing one,
\* or one of the MaxSkipAhead missing ones after it.
MaxSkipAhead == 1

\* Bound of the model: how many pieces of information one reply may carry
\* (fields of the extraction payload, and the personal-use hint).
MaxPayloadFields == 1

\* The seven requirement fields, in the order of getMissingRequirements.
required == <<"gpm", "headFt", "fluid", "powerAvailable", "environment",
              "materialPref", "maintenanceBias">>

ReqFields == {required[i] : i \in 1..Len(required)}

CustFields == {"name", "company", "email", "phone"}

AllFields == ReqFields \cup CustFields

NumericFields == {"gpm", "headFt"}

\* The value of a field that is not there.
Absent(f) == IF f \in NumericFields THEN 0 ELSE Undef

\* JavaScript truthiness of the value v of field f.
Truthy(f, v) == IF f \in NumericFields THEN v # 0 ELSE v # Undef /\ v # Empty

\* Values the extraction payload may carry for each field.
FieldValues(f) ==
    CASE f = "gpm"             -> {40}
      [] f = "headFt"          -> {60}
      [] f = "fluid"           -> {"water"}
      [] f = "powerAvailable"  -> {"230V_1ph", "460V_3ph"}
      [] f = "environment"     -> {"non-ATEX"}
      [] f = "materialPref"    -> {"CastIron"}
      [] f = "maintenanceBias" -> {"budget"}
      [] f = "name"            -> {"Ann"}
      [] f = "company"         -> {"Acme"}
      [] f = "email"           -> {"a@x.io"}
      [] f = "phone"           -> {"5550100100"}

\* Values the extraction payload may carry for a field: the values above
\* and, for a customer field and a requirement field, what a language model
\* writes for a value it did not find: the string 'null' or ''.
PayloadValues(f) ==
    FieldValues(f) \cup CASE f = "company" -> {"null", Empty}
                          [] f = "maintenanceBias" -> {"null"}
                          [] OTHER -> {}

\* The parsed JSON object of an extraction reply that carries no field.
EmptyPayload == [f \in AllFields |-> Absent(f)]

RECURSIVE PayloadsUpTo(_)
PayloadsUpTo(k) ==
    IF k = 0 THEN {EmptyPayload}
    ELSE LET P == PayloadsUpTo(k - 1)
         IN  P \cup UNION {{[p EXCEPT ![f] = v] : v \in PayloadValues(f)} :
                              <<p, f>> \in {<<q, g>> \in P \X AllFields : q[g] = Absent(g)}}

\* The parsed JSON objects the extraction call may return.
Payloads == PayloadsUpTo(MaxPayloadFields)

\* Every field with a value the payload may carry for it.
FieldValuePairs == UNION {{<<f, v>> : v \in PayloadValues(f)} : f \in AllFields}

\* The payloads, each with the fields and values it carries.
PayloadEntries ==
    {[payload |-> p, carried |-> {fv \in FieldValuePairs : p[fv[1]] = fv[2]}] :
        p \in Payloads}

(***************************************************************************)
(* The deterministic tools.  Motor power is kept in tenths of a horsepower *)
(* (30 is 3 HP, 75 is 7.5 HP) so that the 7.5 HP threshold is an integer.  *)
(***************************************************************************)

\* DataStore.flowHeadMap: the rows of data/flow_head_map.csv in file order,
\* with gpmRange "a-b" and headRange "a-b" already split by parseInt.
flowHeadMap ==
    << [gpmMin |-> 0,   gpmMax |-> 50,  headMin |-> 0, headMax |-> 80,
        family |-> "P100", motorHp |-> 30,  impellerCode |-> "IMP-100-S"],
       [gpmMin |-> 51,  gpmMax |-> 100, headMin |-> 0, headMax |-> 120,
        family |-> "P100", motorHp |-> 50,  impellerCode |-> "IMP-120-M"],
       [gpmMin |-> 101, gpmMax |-> 150, headMin |-> 0, headMax |-> 200,
        family |-> "P200", motorHp |-> 100, impellerCode |-> "IMP-180-XL"],
       [gpmMin |-> 151, gpmMax |-> 200, headMin |-> 0, headMax |-> 250,
        family |-> "P200", motorHp |-> 150, impellerCode |-> "IMP-200-XL"] >>

\* Array.prototype.find over the flow/head map: the first row whose closed
\* ranges hold gpm and headFt, or Null when there is none.
flowHeadMatch(requirements) ==
    LET hits == {i \in 1..Len(flowHeadMap) :
                    /\ requirements.gpm >= flowHeadMap[i].gpmMin
                    /\ requirements.gpm <= flowHeadMap[i].gpmMax
                    /\ requirements.headFt >= flowHeadMap[i].headMin
                    /\ requirements.headFt <= flowHeadMap[i].headMax}
    IN  IF hits = {} THEN Null
        ELSE flowHeadMap[CHOOSE i \in hits : \A j \in hits : i <= j]

\* The PumpConfiguration that ReActAgent.proposeConfiguration builds.
proposedConfig(requirements) ==
    LET m  == flowHeadMatch(requirements)
        hp == IF m = Null THEN 30 ELSE m.motorHp
    IN  [family   |-> IF m = Null THEN "P100" ELSE m.family,
         impeller |-> IF m = Null THEN "IMP-100-XS" ELSE m.impellerCode,
         motorHp  |-> hp,
         voltage  |-> IF Truthy("powerAvailable", requirements.powerAvailable)
                      THEN requirements.powerAvailable ELSE "460V_3ph",
         sealType |-> IF requirements.maintenanceBias = "budget"
                      THEN "Packing" ELSE "Mechanical",
         material |-> IF Truthy("materialPref", requirements.materialPref)
                      THEN requirements.materialPref
                      ELSE IF requirements.environment = "ATEX"
                           THEN "Stainless" ELSE "CastIron",
         mount    |-> IF hp <= 75 THEN "CloseCoupled" ELSE "Base",
         atex     |-> requirements.environment = "ATEX"]

\* Mutant of firstEntry: the ranges are taken as open intervals.
RECURSIVE firstEntry_Open(_, _, _)
firstEntry_Open(i, gpm, headFt) ==
    IF i > Len(flowHeadMap) THEN 0
    ELSE IF /\ gpm > flowHeadMap[i].gpmMin /\ gpm < flowHeadMap[i].gpmMax
            /\ headFt > flowHeadMap[i].headMin /\ headFt < flowHeadMap[i].headMax
         THEN i
         ELSE firstEntry_Open(i + 1, gpm, headFt)

\* The for loop of the selectConfiguration activity from entry i on: the
\* index of the first entry whose closed ranges hold gpm and headFt, 0 when
\* the loop ends without a break.
RECURSIVE firstEntry(_, _, _)
firstEntry(i, gpm, headFt) ==
    IF i > Len(flowHeadMap) THEN 0
    ELSE IF /\ gpm >= flowHeadMap[i].gpmMin /\ gpm <= flowHeadMap[i].gpmMax
            /\ headFt >= flowHeadMap[i].headMin /\ headFt <= flowHeadMap[i].headMax
         THEN i
         ELSE firstEntry(i + 1, gpm, headFt)

\* The selectConfiguration activity (quote.activities): the entry of the
\* loop, or the first entry of the map when none matched; the voltage is
\* taken from the motor power, the material is Stainless for the Stainless
\* preference and for ATEX.
selectConfiguration(requirements) ==
    LET i == firstEntry(1, requirements.gpm, requirements.headFt)
        entry == IF i = 0 THEN flowHeadMap[1] ELSE flowHeadMap[i]
    IN  [family   |-> entry.family,
         motorHp  |-> entry.motorHp,
         voltage  |-> IF entry.motorHp <= 30 THEN "230V_1ph" ELSE "460V_3ph",
         sealType |-> IF requirements.maintenanceBias = "low maintenance"
                      THEN "Mechanical" ELSE "Packing",
         material |-> IF requirements.materialPref = "Stainless"
                         \/ requirements.environment = "ATEX"
                      THEN "Stainless" ELSE "CastIron",
         mount    |-> IF entry.motorHp <= 75 THEN "CloseCoupled" ELSE "Base",
         impeller |-> entry.impellerCode,
         atex     |-> requirements.environment = "ATEX"]

\* Mutant of pushIf: only the first message is kept.
pushIf_FirstOnly(s, cond, msg) == IF cond /\ s = <<>> THEN Append(s, msg) ELSE s

\* The sequence s with the message msg pushed when cond holds.
pushIf(s, cond, msg) == IF cond THEN Append(s, msg) ELSE s

\* Mutant of closeCoupledTooLarge: 7.5 HP is already too large.
closeCoupledTooLarge_Exclusive(config) ==
    config.mount = "CloseCoupled" /\ config.motorHp >= 75

\* The three HP conditions of validateConfiguration (motorHp || 0 is the
\* number itself: an undefined motorHp is 0).
over230VLimit(config) == config.voltage = "230V_1ph" /\ config.motorHp > 30
under460VLimit(config) == config.voltage = "460V_3ph" /\ config.motorHp < 50
closeCoupledTooLarge(config) == config.mount = "CloseCoupled" /\ config.motorHp > 75

\* Mutant of atexNotMet: the mount is not looked at.
atexNotMet_NoMount(config, requirements) ==
    /\ requirements.environment = "ATEX"
    /\ config.atex
    /\ \/ config.material # "Stainless"
       \/ config.sealType # "Mechanical"
       \/ config.voltage # "460V_3ph"
       \/ config.motorHp < 50

\* The ATEX condition of validateConfiguration.
atexNotMet(config, requirements) ==
    /\ requirements.environment = "ATEX"
    /\ config.atex
    /\ \/ config.material # "Stainless"
       \/ config.sealType # "Mechanical"
       \/ config.voltage # "460V_3ph"
       \/ config.mount # "Base"
       \/ config.motorHp < 50

\* validateConfiguration of the tools module: every violated rule, in rule order.
validateConfiguration(config, requirements) ==
    LET v1 == pushIf(<<>>, ~Truthy("family", config.family), "Pump family is required")
        v2 == pushIf(v1, config.motorHp = 0, "Motor HP is required")
        v3 == pushIf(v2, ~Truthy("voltage", config.voltage), "Voltage is required")
        v4 == pushIf(v3, ~Truthy("sealType", config.sealType), "Seal type is required")
        v5 == pushIf(v4, ~Truthy("material", config.material), "Material is required")
        v6 == pushIf(v5, ~Truthy("mount", config.mount), "Mount type is required")
        v7 == pushIf(v6, over230VLimit(config), "230V 1-phase requires Motor HP <= 3")
        v8 == pushIf(v7, under460VLimit(config), "460V 3-phase requires Motor HP >= 5")
        v9 == pushIf(v8, closeCoupledTooLarge(config),
                     "Close coupled mount requires Motor HP <= 7.5")
        v10 == pushIf(v9, atexNotMet(config, requirements),
                      "ATEX compliance requires: Stainless material, Mechanical seal, 460V 3-phase, Base mount, and Motor HP >= 5")
    IN  [isValid    |-> Len(v10) = 0,
         violations |-> v10,
         suggestion |-> IF Len(v10) > 0
                        THEN "Please adjust the configuration to meet all constraints."
                        ELSE "Configuration is valid."]

\* DataStore.pricingRules.default_discount_pct, in percent.
DEFAULT_DISCOUNT == 20

\* calculatePricing of the tools module: the bill of materials in assembly
\* order (the component of each line) and the discount applied.
calculatePricing(config) ==
    [bom |-> <<"base", "impeller", "motor", "seal_kit", "mount", "coupling">>
             \o (IF config.atex THEN <<"atex">> ELSE <<>>)
             \o <<"fasteners", "finish">>,
     discountPercent |-> DEFAULT_DISCOUNT]

(***************************************************************************)
(* The session.  conversationHistory is kept as what the code reads of it: *)
(* which of the keywords 'name'/'call you' and 'company' the last          *)
(* assistant message holds (lastAssistant), whether any assistant message  *)
(* holds 'name'/'call you' (askedName), and whether any assistant message  *)
(* is a requirement question (askedRequirement).                           *)
(***************************************************************************)
VARIABLES state, result

\* A second ReActAgent session, for the claims about two sessions; the
\* arguments and the result of one call of a tool, for the claims about the
\* tools as functions; the state of one quoteWorkflow execution.  Each is
\* Null in the specifications that do not run it.
VARIABLES peer, tool, workflow

vars == <<state, result, peer, tool, workflow>>

Phases == {"customer_info", "gathering", "proposing", "validating", "pricing", "complete"}

\* Keywords of a message that holds neither 'name'/'call you' nor 'company'
\* (also the '' that lastQuestion is when there is no assistant message).
NoKeywords == [name |-> FALSE, company |-> FALSE]

\* Keywords of the question askCustomerInfo generates for a field: the
\* question for the name holds 'name', the one for the company 'company'.
customerQuestion(field) == [name |-> field = "name", company |-> field = "company"]

\* Mutant of getMissingRequirements: the last required key is not checked.
getMissingRequirements_SkipLast(st) ==
    SelectSeq(SubSeq(required, 1, Len(required) - 1),
              LAMBDA key : ~Truthy(key, st.requirements[key]))

\* Mutant of getMissingRequirements: the missing keys, last one first.
getMissingRequirements_Reversed(st) ==
    LET missing == SelectSeq(required, LAMBDA key : ~Truthy(key, st.requirements[key]))
    IN  [i \in 1..Len(missing) |-> missing[Len(missing) + 1 - i]]

\* getMissingRequirements: the required keys whose value is falsy, in order.
getMissingRequirements(st) ==
    SelectSeq(required, LAMBDA key : ~Truthy(key, st.requirements[key]))

\* Mutant of getMissingCustomerInfo: a skipped company ('') is missing too.
getMissingCustomerInfo_Falsy(st) ==
    pushIf(pushIf(pushIf(<<>>,
        ~Truthy("name", st.customer.name), "name"),
        ~Truthy("company", st.customer.company), "company"),
        ~Truthy("email", st.customer.email) /\ ~Truthy("phone", st.customer.phone),
        "email_or_phone")

\* Mutant of getMissingCustomerInfo: the contact details come first.
getMissingCustomerInfo_ContactFirst(st) ==
    pushIf(pushIf(pushIf(<<>>,
        ~Truthy("email", st.customer.email) /\ ~Truthy("phone", st.customer.phone),
        "email_or_phone"),
        ~Truthy("name", st.customer.name), "name"),
        st.customer.company = Undef, "company")

\* getMissingCustomerInfo: name, company (only while undefined), email_or_phone.
getMissingCustomerInfo(st) ==
    pushIf(pushIf(pushIf(<<>>,
        ~Truthy("name", st.customer.name), "name"),
        st.customer.company = Undef, "company"),
        ~Truthy("email", st.customer.email) /\ ~Truthy("phone", st.customer.phone),
        "email_or_phone")

\* Mutant of hasContactInfo: contact details are taken as given.
hasContactInfo_Always(st) == TRUE

\* Mutant of hasContactInfo: only an email counts.
hasContactInfo_EmailOnly(st) == Truthy("email", st.customer.email)

\* hasContactInfo of think: an email or a phone is there.
hasContactInfo(st) ==
    Truthy("email", st.customer.email) \/ Truthy("phone", st.customer.phone)

Thought(action, param) == [action |-> action, param |-> param]

\* Mutant of hasAskedForName: the name question counts as asked.
hasAskedForName_Always(st) == TRUE

\* hasAskedForName of think: an assistant message of the history holds
\* 'name' or 'call you'.
hasAskedForName(st) == st.askedName

\* ReActAgent.think: the next action and the state after the phase switches.
RECURSIVE think(_)
think(st) ==
    CASE st.phase = "gathering" ->
           IF ~Truthy("name", st.customer.name) /\ ~hasAskedForName(st)
           THEN [st |-> [st EXCEPT !.phase = "customer_info"],
                 thought |-> Thought("ask_customer_info", "name")]
           ELSE LET missing == getMissingRequirements(st)
                IN  IF Len(missing) > 0
                    THEN [st |-> st, thought |-> Thought("ask_requirement", missing[1])]
                    ELSE IF ~hasContactInfo(st)
                         THEN think([st EXCEPT !.phase = "customer_info"])
                         ELSE [st |-> [st EXCEPT !.phase = "proposing"],
                               thought |-> Thought("propose_configuration", "")]
      [] st.phase = "customer_info" ->
           LET missingCustomerInfo == getMissingCustomerInfo(st)
           IN  IF Len(missingCustomerInfo) > 0
               THEN [st |-> st,
                     thought |-> Thought("ask_customer_info", missingCustomerInfo[1])]
               ELSE IF Len(getMissingRequirements(st)) = 0
                    THEN [st |-> [st EXCEPT !.phase = "proposing"],
                          thought |-> Thought("propose_configuration", "")]
                    ELSE think([st EXCEPT !.phase = "gathering"])
      [] st.phase = "proposing" ->
           [st |-> [st EXCEPT !.phase = "validating"],
            thought |-> Thought("validate_configuration", "")]
      [] st.phase = "validating" ->
           IF st.validationResult # Null /\ ~st.validationResult.isValid
           THEN [st |-> st, thought |-> Thought("explain_violations", "")]
           ELSE [st |-> [st EXCEPT !.phase = "pricing"],
                 thought |-> Thought("calculate_pricing", "")]
      [] st.phase = "pricing" ->
           [st |-> [st EXCEPT !.phase = "complete"],
            thought |-> Thought("persist_canvas", "")]
      [] OTHER -> [st |-> st, thought |-> Thought("done", "")]

\* The file path persistCanvas writes the quote to.
QuotePath == "runs/quote.md"

\* The state with an assistant message of keywords kw pushed to the history.
pushAssistant(st, kw) ==
    [st EXCEPT !.lastAssistant = kw, !.askedName = st.askedName \/ kw.name]

\* What an action of act gives: the state, and whether it threw.
Done(st) == [st |-> st, threw |-> FALSE]
Threw(st) == [st |-> st, threw |-> TRUE]

\* Mutant of askCustomerInfo: a canned question replaces a failed generation.
askCustomerInfo_Fallback(st, field, ask) ==
    Done(pushAssistant(st, customerQuestion(field)))

\* ReActAgent.askCustomerInfo: pushes the generated question, or throws when
\* the provider call throws or gives no question (ask = "throw").
askCustomerInfo(st, field, ask) ==
    IF ask = "throw" THEN Threw(st)
    ELSE Done(pushAssistant(st, customerQuestion(field)))

\* ReActAgent.askRequirement: the same for a requirement question.
askRequirement(st, requirement, ask) ==
    IF ask = "throw" THEN Threw(st)
    ELSE Done([pushAssistant(st, NoKeywords) EXCEPT !.askedRequirement = TRUE])

\* ReActAgent.proposeConfiguration.
proposeConfiguration(st) ==
    Done(pushAssistant([st EXCEPT !.configuration = proposedConfig(st.requirements)],
                       NoKeywords))

\* ReActAgent.validateConfig (reading a field of a null configuration throws).
validateConfig(st) ==
    IF st.configuration = Null THEN Threw(st)
    ELSE Done([st EXCEPT !.validationResult =
                   validateConfiguration(st.configuration, st.requirements)])

\* Mutant of explainViolations: the session goes back to asking, for the
\* user to adjust the requirements.
explainViolations_Regather(st) ==
    Done([pushAssistant(st, NoKeywords) EXCEPT !.phase = "gathering"])

\* ReActAgent.explainViolations.
explainViolations(st) ==
    Done([pushAssistant(st, NoKeywords) EXCEPT !.phase = "pricing"])

\* ReActAgent.calculatePricing (the tool throws on a null configuration).
agentCalculatePricing(st) ==
    IF st.configuration = Null THEN Threw(st)
    ELSE LET pricing == calculatePricing(st.configuration)
         IN  Done(pushAssistant([st EXCEPT !.pricing = pricing, !.bom = pricing.bom],
                                NoKeywords))

\* ReActAgent.persistCanvas: generateMarkdown reads canvas.configuration.family
\* and canvas.pricing.listTotal, and throws before the file is written when
\* the configuration or the pricing is null.
persistCanvas(st) ==
    IF st.pricing = Null \/ st.configuration = Null THEN Threw(st)
    ELSE Done(pushAssistant([st EXCEPT !.canvasPath = QuotePath], NoKeywords))

\* ReActAgent.act: runs the action of a thought.  ask is the outcome of the
\* provider call that phrases a question ("ok" or "throw").
act(st, thought, ask) ==
    CASE thought.action = "ask_customer_info" -> askCustomerInfo(st, thought.param, ask)
      [] thought.action = "ask_requirement" -> askRequirement(st, thought.param, ask)
      [] thought.action = "propose_configuration" -> proposeConfiguration(st)
      [] thought.action = "validate_configuration" -> validateConfig(st)
      [] thought.action = "explain_violations" -> explainViolations(st)
      [] thought.action = "calculate_pricing" -> agentCalculatePricing(st)
      [] thought.action = "persist_canvas" -> persistCanvas(st)
      [] OTHER -> Done(st)

\* hasNoRequirements of step: Object.keys(requirements).length === 0.
hasNoRequirements(st) == \A f \in ReqFields : st.requirements[f] = Absent(f)

\* Mutant of mergeRequirement: a number is added to the stored one.
mergeRequirement_Accumulate(f, old, new) ==
    IF ~Truthy(f, new) THEN old
    ELSE IF f \in NumericFields THEN old + new ELSE new

\* A requirement field after `if (extracted.f) requirements.f = extracted.f`.
mergeRequirement(f, old, new) == IF Truthy(f, new) THEN new ELSE old

\* A customer field after
\* `if (extracted.f && extracted.f !== 'null') customer.f = extracted.f`.
mergeCustomer(f, old, new) == IF Truthy(f, new) /\ new # "null" THEN new ELSE old

\* Mutant of mergeExtracted: the requirement fields are merged in every
\* phase.
mergeExtracted_AnyPhase(st, message, llm) ==
    IF llm.reply = "nojson" THEN [st |-> st, extracted |-> "true"]
    ELSE IF llm.reply = "badjson" THEN [st |-> st, extracted |-> "throw"]
    ELSE LET p == llm.payload
             personal == /\ st.customer.company = Undef
                         /\ message # Empty
                         /\ st.phase \in {"customer_info", "gathering"}
                         /\ llm.personal
             customer == [f \in CustFields |->
                            mergeCustomer(f, IF f = "company" /\ personal
                                             THEN Empty ELSE st.customer[f], p[f])]
             requirements == [f \in ReqFields |->
                                mergeRequirement(f, st.requirements[f], p[f])]
             extractedSomething ==
                 \/ personal
                 \/ \E f \in CustFields : Truthy(f, p[f]) /\ p[f] # "null"
                 \/ \E f \in ReqFields : Truthy(f, p[f])
         IN  [st |-> [st EXCEPT !.customer = customer, !.requirements = requirements],
              extracted |-> IF extractedSomething THEN "true" ELSE "false"]

\* Lines 257-349 of extractWithAI: what is done with the provider's reply.
\* A reply without a {...} merges nothing and counts as extracted; a {...}
\* that JSON.parse rejects ("badjson") throws into the catch; a parsed
\* payload is merged field by field, after the personal-use detection.
mergeExtracted(st, message, llm) ==
    IF llm.reply = "nojson" THEN [st |-> st, extracted |-> "true"]
    ELSE IF llm.reply = "badjson" THEN [st |-> st, extracted |-> "throw"]
    ELSE LET p == llm.payload
             asking == st.phase \in {"customer_info", "gathering"}
             personal == /\ st.customer.company = Undef
                         /\ message # Empty
                         /\ asking
                         /\ llm.personal
             customer == [f \in CustFields |->
                            mergeCustomer(f, IF f = "company" /\ personal
                                             THEN Empty ELSE st.customer[f], p[f])]
             requirements == [f \in ReqFields |->
                                IF asking THEN mergeRequirement(f, st.requirements[f], p[f])
                                ELSE st.requirements[f]]
             extractedSomething ==
                 \/ personal
                 \/ \E f \in CustFields : Truthy(f, p[f]) /\ p[f] # "null"
                 \/ asking /\ \E f \in ReqFields : Truthy(f, p[f])
         IN  [st |-> [st EXCEPT !.customer = customer, !.requirements = requirements],
              extracted |-> IF extractedSomething THEN "true" ELSE "false"]

\* Lines 207-222 of extractWithAI: an empty answer to the company question,
\* or to the name question while no requirement is known, is handled
\* without calling the provider.
callsProvider(st, message) ==
    ~ /\ st.phase = "customer_info"
      /\ message = Empty
      /\ \/ st.lastAssistant.company
         \/ st.lastAssistant.name /\ hasNoRequirements(st)

\* Mutant of extractWithAI: a throwing provider call is swallowed and
\* counts as nothing extracted.
extractWithAI_Swallow(st, message, llm) ==
    IF ~callsProvider(st, message)
    THEN IF st.lastAssistant.company
         THEN [st |-> [st EXCEPT !.customer.company = Empty], extracted |-> "true"]
         ELSE [st |-> st, extracted |-> "false"]
    ELSE IF llm.reply = "throw" THEN [st |-> st, extracted |-> "false"]
    ELSE mergeExtracted(st, message, llm)

\* ReActAgent.extractWithAI on a user message ("" is an empty or blank one,
\* "text" any other).  llm is what the provider calls give: reply is "throw"
\* (the call throws), "nojson" (no {...} in the reply), "badjson" (a {...}
\* that does not parse) or "json" with the parsed payload; personal is
\* detectPersonalUse's answer.
\* Returns the state and extracted: "true", "false" or "throw".
extractWithAI(st, message, llm) ==
    IF ~callsProvider(st, message)
    THEN IF st.lastAssistant.company
         THEN [st |-> [st EXCEPT !.customer.company = Empty], extracted |-> "true"]
         ELSE [st |-> st, extracted |-> "false"]
    ELSE IF llm.reply = "throw" THEN [st |-> st, extracted |-> "throw"]
    ELSE mergeExtracted(st, message, llm)

\* A step() call without a user message.
None == "none"

\* The requirement fields a reply to the session in state st may carry
\* (none once the session has stopped asking: they are not merged then).
answerable(st) ==
    LET missing == getMissingRequirements(st)
    IN  IF st.phase \notin {"customer_info", "gathering"} THEN {}
        ELSE {f \in ReqFields : Truthy(f, st.requirements[f])}
             \cup {missing[i] : i \in {j \in 1..Len(missing) : j <= 1 + MaxSkipAhead}}

\* How many fields the payload p carries.
fieldCount(p) == Cardinality({f \in AllFields : p[f] # Absent(f)})

\* What the provider calls of one extraction may give: the call throws, the
\* reply holds no JSON or a malformed one, or it holds a payload (an empty one for an empty
\* message) together with the answer of the personal-use detection, which
\* is only called for a non-empty message while the company is undefined.
\* A payload field that repeats the stored value is left out: the step then
\* does what it does for the payload without it, or for a reply without JSON.
LLMReplies(st, message) ==
    LET stored == [f \in AllFields |-> IF f \in ReqFields THEN st.requirements[f]
                                        ELSE st.customer[f]]
        canCarry == CustFields \cup answerable(st)
        offered == {fv \in FieldValuePairs :
                       fv[1] \in canCarry /\ fv[2] # stored[fv[1]]}
        fields == {e.payload : e \in {x \in PayloadEntries : x.carried \subseteq offered}}
        detects == /\ message # Empty
                   /\ st.customer.company = Undef
                   /\ st.phase \in {"customer_info", "gathering"}
    IN  {[reply |-> r, payload |-> EmptyPayload, personal |-> FALSE] :
             r \in {"throw", "nojson", "badjson"}}
        \cup {[reply |-> "json", payload |-> p, personal |-> FALSE] :
                 p \in (IF message = Empty THEN {EmptyPayload} ELSE fields)}
        \cup {[reply |-> "json", payload |-> p, personal |-> TRUE] :
                 p \in (IF detects THEN {q \in fields : fieldCount(q) < MaxPayloadFields}
                        ELSE {})}

Response(kind, param, done) == [response |-> Thought(kind, param), done |-> done]

\* The THINK and ACT half of step, from the state st the OBSERVE half left.
thinkAndAct(st, ask) ==
    LET th == think(st)
        a  == act(th.st, th.thought, ask)
    IN  IF a.threw
        THEN [st |-> a.st, result |-> Response("error", "", FALSE)]
        ELSE [st |-> a.st,
              result |-> [response |-> th.thought, done |-> a.st.phase = "complete"]]

\* Mutant of reminderOutcome: the step goes on to the transition rules.
reminderOutcome_Advance(st, remind) == thinkAndAct(st, "ok")

\* The reminder branch of step: the generated reminder is pushed to the
\* history and returned with done = false.  remind tells whether the
\* reminder repeats the keywords of the question it reminds of.
reminderOutcome(st, remind) ==
    [st |-> pushAssistant(st, IF remind THEN st.lastAssistant ELSE NoKeywords),
     result |-> Response("reminder", "", FALSE)]

\* ReActAgent.step as a function: the state and the result.
stepOutcome(st0, message, llm, ask, remind) ==
    IF message = None THEN thinkAndAct(st0, ask)
    ELSE LET ex == extractWithAI(st0, message, llm)
             st == ex.st
             isCustomerInfo == st.phase = "customer_info"
         IN  CASE ex.extracted = "throw" ->
                    [st |-> st, result |-> Response("error", "", FALSE)]
               [] ex.extracted = "true" -> thinkAndAct(st, ask)
               [] OTHER ->
                    IF isCustomerInfo /\ st.lastAssistant.name /\ hasNoRequirements(st)
                    THEN thinkAndAct([st EXCEPT !.phase = "gathering"], ask)
                    ELSE IF isCustomerInfo /\ st.lastAssistant.company
                    THEN thinkAndAct([st EXCEPT !.customer.company = Empty], ask)
                    ELSE reminderOutcome(st, remind)

\* The customer seeds of the constructor: a name and a company, or not.
CustomerSeeds ==
    {[name |-> name, company |-> company, email |-> Undef, phone |-> Undef] :
        name \in {Undef} \cup FieldValues("name"),
        company \in {Undef} \cup FieldValues("company")}

\* The AgentState the constructor builds around the customer seed.
newAgentState(customer) ==
    [customer |-> customer,
     requirements |-> [f \in ReqFields |-> Absent(f)],
     configuration |-> Null,
     validationResult |-> Null,
     pricing |-> Null,
     bom |-> <<>>,
     canvasPath |-> Undef,
     lastAssistant |-> NoKeywords,
     askedName |-> FALSE,
     askedRequirement |-> FALSE,
     phase |-> "gathering"]

\* The constructor: the customer seed holds a name and a company or not.
Init ==
    /\ \E customer \in CustomerSeeds : state = newAgentState(customer)
    /\ result = Response("none", "", FALSE)
    /\ peer = Null
    /\ tool = Null
    /\ workflow = Null

\* One call of step(userMessage).
step(message, llm, ask, remind) ==
    \E out \in {stepOutcome(state, message, llm, ask, remind)} :
        /\ state' = out.st
        /\ result' = out.result

\* step() and step(userMessage) with every outcome of the provider calls.
\* The question generation is only called in the two asking phases and
\* after an extraction that did not throw; the reminder is only generated
\* for a payload that carries nothing, and it can only repeat keywords that
\* the last question holds.
anyStep ==
    \E message \in {None, Empty, "text"} :
      \E llm \in (IF message = None THEN {[reply |-> "nojson", payload |-> EmptyPayload,
                                            personal |-> FALSE]}
                  ELSE LLMReplies(state, message)) :
        \E ask \in (IF /\ state.phase \in {"customer_info", "gathering"}
                       /\ llm.reply \in {"nojson", "json"}
                    THEN {"ok", "throw"} ELSE {"ok"}),
           remind \in (IF /\ message # None
                          /\ state.lastAssistant # NoKeywords
                          /\ llm.reply = "json"
                          /\ ~llm.personal
                          /\ \A f \in AllFields : ~Truthy(f, llm.payload[f])
                       THEN BOOLEAN ELSE {FALSE}) :
            step(message, llm, ask, remind)

\* The calls of step on the one session.
Next == anyStep /\ UNCHANGED <<peer, tool, workflow>>

Spec == Init /\ [][Next]_vars

(***************************************************************************)
(* Properties of the session.                                              *)
(***************************************************************************)

\* The response of asking for a customer item or a requirement.
AskCustomer(field) == Thought("ask_customer_info", field)

\* C1: in every reachable state whose phase is complete a Pricing has been
\* produced (state.pricing is not null), also after an invalid validation.
C1_CompleteHasPricing ==
    state.phase = "complete" => state.pricing # Null

\* C2: a Configuration exists, and the session has left the asking phases,
\* only in a state where all seven requirement fields are present.
C2_ConfigurationNeedsRequirements ==
    (state.configuration # Null \/ state.phase \notin {"gathering", "customer_info"})
        => \A f \in ReqFields : Truthy(f, state.requirements[f])

\* C2 witness: the Configuration Selector has run.
C2_Witness ==
    state.configuration # Null /\ result.response.action = "propose_configuration"

\* C3: the quote is persisted (canvasPath is set) only in a state where a
\* Pricing exists and the customer has an email or a phone, and a Pricing
\* exists only where a Configuration exists.
C3_PersistNeedsPricingAndContact ==
    /\ state.canvasPath # Undef =>
          /\ state.pricing # Null
          /\ \/ Truthy("email", state.customer.email)
             \/ Truthy("phone", state.customer.phone)
    /\ state.pricing # Null => state.configuration # Null

\* C3 witness: the canvas has just been persisted.
C3_Witness ==
    state.canvasPath # Undef /\ result.response.action = "persist_canvas"

\* C4: once the phase is complete, every further step returns done = true
\* with the closing message and leaves the phase complete.
C4_CompleteIsTerminal ==
    [][state.phase = "complete" =>
          /\ result'.done
          /\ result'.response.action = "done"
          /\ state'.phase = "complete"]_vars

\* The phase changes a step may make.
PhaseMoves ==
    {<<"gathering", "customer_info">>, <<"customer_info", "gathering">>,
     <<"gathering", "proposing">>, <<"customer_info", "proposing">>,
     <<"proposing", "validating">>, <<"validating", "pricing">>,
     <<"pricing", "complete">>}

\* C5: a session starts in gathering; proposing is entered only from
\* gathering or customer_info, validating only from proposing, pricing only
\* from validating, complete only from pricing, and no step goes back from
\* one of these four to gathering or customer_info.
C5_PhaseOrder ==
    /\ state.phase = "gathering"
    /\ [][state'.phase # state.phase => <<state.phase, state'.phase>> \in PhaseMoves]_vars

\* C5 witness: a session that went through every phase and is complete.
C5_Witness ==
    state.phase = "complete" /\ result.done /\ state.canvasPath # Undef

\* C6: the name question is asked at most once before the first
\* requirement question.
C6_NameAskedOnce ==
    [][(state.askedName /\ ~state.askedRequirement)
          => result'.response # AskCustomer("name")]_vars

\* C7: no company question and no email-or-phone question is asked while a
\* requirement field is missing.
C7_PumpQuestionsFirst ==
    result.response \in {AskCustomer("company"), AskCustomer("email_or_phone")}
        => \A f \in ReqFields : Truthy(f, state.requirements[f])

\* C8: a customer or requirement field that holds a non-empty value never
\* becomes unset or empty again.
C8_NeverDowngrades ==
    [][/\ \A f \in CustFields :
             Truthy(f, state.customer[f]) => Truthy(f, state'.customer[f])
       /\ \A f \in ReqFields :
             Truthy(f, state.requirements[f]) => Truthy(f, state'.requirements[f])]_vars

\* C9: once a customer or requirement field holds a non-empty value, no
\* step replaces it by a different non-empty value (first write wins).
C9_FirstWriteWins ==
    [][/\ \A f \in CustFields :
             (Truthy(f, state.customer[f]) /\ Truthy(f, state'.customer[f]))
                 => state'.customer[f] = state.customer[f]
       /\ \A f \in ReqFields :
             (Truthy(f, state.requirements[f]) /\ Truthy(f, state'.requirements[f]))
                 => state'.requirements[f] = state.requirements[f]]_vars

\* The provider's reply of an extraction call that throws.
ThrowReply == [reply |-> "throw", payload |-> EmptyPayload, personal |-> FALSE]

\* A step with a user message whose extraction call to the provider throws.
stepWithFailedExtraction ==
    \E message \in {Empty, "text"} :
        /\ callsProvider(state, message)
        /\ step(message, ThrowReply, "ok", FALSE)

NothingReply == [reply |-> "json", payload |-> EmptyPayload, personal |-> FALSE]

\* The provider's replies without a well-formed JSON object: none at all, or
\* one that does not parse.
MalformedReplies ==
    {[reply |-> r, payload |-> EmptyPayload, personal |-> FALSE] : r \in {"nojson", "badjson"}}

\* C11: a step whose provider reply holds no well-formed JSON does what the
\* step does when nothing is extracted (no merge, re-prompt, done = false),
\* and returns neither an error nor the result of a successful extraction.
C11_MalformedIsNothingExtracted ==
    \A message \in {Empty, "text"}, llm \in MalformedReplies, remind \in BOOLEAN :
        callsProvider(state, message) =>
            stepOutcome(state, message, llm, "ok", remind)
                = stepOutcome(state, message, NothingReply, "ok", remind)

\* The replies that carry nothing but what a language model writes for a
\* value it did not find ('null', ''), with a personal-use detection that
\* answers no.
NothingFoundReplies ==
    {[reply |-> "json", payload |-> e.payload, personal |-> FALSE] :
        e \in {x \in PayloadEntries :
                  \A fv \in x.carried :
                      fv[1] \notin NumericFields /\ fv[2] \in {"null", Empty}}}

\* C12: in every reachable state, a step with a user message from which
\* nothing is extracted, the last question being neither the company
\* question nor the skippable first name question, returns a reminder with
\* done = false, pushes it to the history, and leaves phase, customer,
\* requirements, configuration, validation result and pricing unchanged.
C12_NothingExtractedReminds ==
    (~state.lastAssistant.company /\ ~(state.lastAssistant.name /\ hasNoRequirements(state)))
    => \A message \in {Empty, "text"}, llm \in NothingFoundReplies :
           extractWithAI(state, message, llm).extracted = "false"
           => \A remind \in BOOLEAN :
                LET out == stepOutcome(state, message, llm, "ok", remind)
                IN  /\ out.result = Response("reminder", "", FALSE)
                    /\ out.st = pushAssistant(state, IF remind THEN state.lastAssistant
                                                     ELSE NoKeywords)

\* C12 witness: a reminder was returned for an answer to a requirement
\* question.
C12_Witness ==
    /\ result = Response("reminder", "", FALSE)
    /\ state.askedRequirement
    /\ state.phase = "gathering"

\* C13: once the company is resolved (skipped with '' or given), it stays
\* resolved and no step asks the company question.
C13_SkippedCompanyNotAskedAgain ==
    [][/\ state'.customer.company # Undef => result'.response # AskCustomer("company")
       /\ state.customer.company # Undef => state'.customer.company # Undef]_vars

\* C13 witness: the company was skipped and the step went on to the next
\* customer question.
C13_Witness ==
    /\ state.customer.company = Empty
    /\ state.phase = "customer_info"
    /\ result.response = AskCustomer("email_or_phone")

C15_AsksFirstMissingRequirement ==
    (state.phase = "gathering" /\ result.response.action \notin {"none", "error", "reminder"})
    => \E i \in 1..Len(required) :
          /\ result.response = Thought("ask_requirement", required[i])
          /\ ~Truthy(required[i], state.requirements[required[i]])
          /\ \A j \in 1..(i - 1) : Truthy(required[j], state.requirements[required[j]])

\* C15 witness: the head was supplied before the flow, and the flow is asked.
C15_Witness ==
    /\ state.phase = "gathering"
    /\ result.response = Thought("ask_requirement", "gpm")
    /\ Truthy("headFt", state.requirements.headFt)

\* C16: a step that starts in phase gathering (the name set or already
\* asked) and ends a question or an action with all seven requirements
\* present has switched to customer_info and asked a customer question if
\* neither email nor phone is there, and otherwise has switched to proposing
\* and selected a configuration; no state past the asking phases lacks both
\* email and phone.
C16_GatheringCompleteSwitches ==
    /\ [](state.phase \notin {"gathering", "customer_info"}
            => \/ Truthy("email", state.customer.email)
               \/ Truthy("phone", state.customer.phone))
    /\ [][( /\ state.phase = "gathering"
            /\ Truthy("name", state'.customer.name) \/ state.askedName
            /\ \A f \in ReqFields : Truthy(f, state'.requirements[f])
            /\ result'.response.action \notin {"error", "reminder"} )
          => IF \/ Truthy("email", state'.customer.email)
                \/ Truthy("phone", state'.customer.phone)
             THEN /\ state'.phase = "proposing"
                  /\ result'.response.action = "propose_configuration"
                  /\ state'.configuration # Null
             ELSE /\ state'.phase = "customer_info"
                  /\ result'.response.action = "ask_customer_info"]_vars

\* C16 witness: the requirements are complete, no email and no phone is
\* there, and the step asked for them in customer_info.
C16_Witness ==
    /\ \A f \in ReqFields : Truthy(f, state.requirements[f])
    /\ Truthy("name", state.customer.name)
    /\ state.customer.company # Undef
    /\ state.phase = "customer_info"
    /\ result.response = AskCustomer("email_or_phone")

\* A step that skips the first name question: nothing is extracted from the
\* answer to it while no requirement is known.
nameSkipStep ==
    /\ state.phase = "customer_info"
    /\ state.lastAssistant.name
    /\ hasNoRequirements(state)
    /\ \E message \in {Empty, "text"} :
         \E llm \in LLMReplies(state, message) :
            /\ extractWithAI(state, message, llm).extracted = "false"
            /\ step(message, llm, "ok", FALSE)

\* C17: a step that starts in phase customer_info and ends with a question
\* or an action (the skip of the first name question aside) asks the first
\* of name, company (while undefined) and email_or_phone that is missing;
\* when none is, it selects a configuration in proposing if the seven
\* requirements are there, and otherwise asks the first missing requirement
\* in gathering.
C17_CustomerInfoOrder ==
    [][( /\ state.phase = "customer_info"
         /\ result'.response.action \notin {"error", "reminder"}
         /\ ~nameSkipStep )
       => IF ~Truthy("name", state'.customer.name)
          THEN state'.phase = "customer_info" /\ result'.response = AskCustomer("name")
          ELSE IF state'.customer.company = Undef
          THEN state'.phase = "customer_info" /\ result'.response = AskCustomer("company")
          ELSE IF ~Truthy("email", state'.customer.email)
                  /\ ~Truthy("phone", state'.customer.phone)
          THEN /\ state'.phase = "customer_info"
               /\ result'.response = AskCustomer("email_or_phone")
          ELSE IF \A f \in ReqFields : Truthy(f, state'.requirements[f])
          THEN /\ state'.phase = "proposing"
               /\ result'.response.action = "propose_configuration"
          ELSE /\ state'.phase = "gathering"
               /\ \E i \in 1..Len(required) :
                    /\ result'.response = Thought("ask_requirement", required[i])
                    /\ ~Truthy(required[i], state'.requirements[required[i]])
                    /\ \A j \in 1..(i - 1) :
                          Truthy(required[j], state'.requirements[required[j]])]_vars

\* C17 witness: the customer details were completed in customer_info before
\* the requirements, and the session is back in gathering with a
\* requirement question.
C17_Witness ==
    /\ state.phase = "gathering"
    /\ state.askedName
    /\ Truthy("name", state.customer.name)
    /\ state.customer.company # Undef
    /\ Truthy("email", state.customer.email) \/ Truthy("phone", state.customer.phone)
    /\ result.response.action = "ask_requirement"
    /\ hasNoRequirements(state)

\* The provider's reply of a call that finds no {...} in the answer.
NoJsonReply == [reply |-> "nojson", payload |-> EmptyPayload, personal |-> FALSE]

\* C18: in every reachable state, a step (without a message, or with one
\* that merges nothing) whose next action is a question returns, when the
\* generation of the question fails, an error with done = false; and no
\* step that returns an error pushes an assistant message.
C18_QuestionFailureSurfaced ==
    /\ [](\A message \in {None, "text"} :
            stepOutcome(state, message, NoJsonReply, "ok", FALSE).result.response.action
                \in {"ask_customer_info", "ask_requirement"}
            => LET out == stepOutcome(state, message, NoJsonReply, "throw", FALSE)
               IN  /\ out.result = Response("error", "", FALSE)
                   /\ out.st.lastAssistant = state.lastAssistant
                   /\ out.st.askedName = state.askedName
                   /\ out.st.askedRequirement = state.askedRequirement)
    /\ [][result'.response.action = "error"
            => /\ ~result'.done
               /\ state'.lastAssistant = state.lastAssistant
               /\ state'.askedName = state.askedName
               /\ state'.askedRequirement = state.askedRequirement]_vars

\* C18 witness: the first step switched to customer_info for the name
\* question, the generation of the question failed, and the result is an
\* error with no question in the history.
C18_Witness ==
    /\ state.phase = "customer_info"
    /\ ~Truthy("name", state.customer.name)
    /\ ~state.askedName
    /\ state.lastAssistant = NoKeywords
    /\ result = Response("error", "", FALSE)

\* C19: no customer field and no requirement field ever holds the literal
\* string 'null'.
C19_NullNeverMerged ==
    /\ \A f \in CustFields : state.customer[f] # "null"
    /\ \A f \in ReqFields \ NumericFields : state.requirements[f] # "null"

\* C20: in every reachable state, merging the payload of a reply a second
\* time leaves the customer and requirement fields as the first merge left
\* them.
C20_MergeIdempotent ==
    \A message \in {Empty, "text"} :
      \A llm \in LLMReplies(state, message) :
        LET once == extractWithAI(state, message, llm)
        IN  once.extracted # "throw"
            => LET twice == extractWithAI(once.st, message, llm)
               IN  /\ twice.st.customer = once.st.customer
                   /\ twice.st.requirements = once.st.requirements

\* C20 witness: a voltage is stored, and a reply with the other voltage
\* can be merged over it.
C20_Witness ==
    /\ state.phase = "gathering"
    /\ Truthy("powerAvailable", state.requirements.powerAvailable)
    /\ \E llm \in LLMReplies(state, "text") :
          extractWithAI(state, "text", llm).st.requirements.powerAvailable
              # state.requirements.powerAvailable

(***************************************************************************)
(* Two sessions.  `state` is the AgentState of session A and peer.state    *)
(* that of session B; the constructor keeps the customer object it is      *)
(* given (customer: customerData), so the two sessions hold one customer   *)
(* object when they were made from one seed object (peer.sharesSeed), and  *)
(* an assignment to a field of it through A is read through B.             *)
(***************************************************************************)

\* A and B are constructed from one seed object, or from two seed objects
\* of equal content.
SessionsInit ==
    /\ \E customer \in CustomerSeeds, sharesSeed \in BOOLEAN :
          /\ state = newAgentState(customer)
          /\ peer = [state |-> newAgentState(customer), sharesSeed |-> sharesSeed]
    /\ result = Response("none", "", FALSE)
    /\ tool = Null
    /\ workflow = Null

\* A call of step on session A.
SessionsNext ==
    /\ anyStep
    /\ peer' = [peer EXCEPT !.state.customer =
                    IF peer.sharesSeed THEN state'.customer ELSE @]
    /\ UNCHANGED <<tool, workflow>>

SpecSessions == SessionsInit /\ [][SessionsNext]_vars

\* C23: no step of session A changes the AgentState of session B
\* (customer, requirements, phase, configuration, pricing), also when the
\* two sessions were constructed from the same customer seed.
C23_SessionsIsolated ==
    [][peer'.state = peer.state]_vars

(***************************************************************************)
(* The tools as functions.  One call is modelled: `tool` holds the         *)
(* arguments, which function was called (fn) and what it returned (out).   *)
(***************************************************************************)

\* The requirements the Configuration Selector is called with: flows and
\* heads at, inside and outside the ranges of the flow/head map, and every
\* value of the fields the selector reads.
SelectorRequirements ==
    {[gpm |-> gpm, headFt |-> headFt, fluid |-> "water",
      powerAvailable |-> powerAvailable, environment |-> environment,
      materialPref |-> materialPref, maintenanceBias |-> maintenanceBias] :
        gpm \in {0, 40, 50, 51, 120, 201},
        headFt \in {0, 60, 80, 81, 251},
        powerAvailable \in {Undef, "230V_1ph", "460V_3ph"},
        environment \in {"ATEX", "non-ATEX"},
        materialPref \in {Undef, "CastIron", "Stainless"},
        maintenanceBias \in {"budget", "low maintenance"}}

\* The requirements validateConfiguration is called with: it reads the
\* environment alone.
ValidatorRequirements ==
    {[[f \in ReqFields |-> Absent(f)] EXCEPT !.environment = environment] :
        environment \in {Undef, "ATEX", "non-ATEX"}}

\* The Partial<PumpConfiguration> validateConfiguration is called with:
\* each field missing or with one of its values, the motor power at and
\* around the three thresholds.
ValidatorConfigs ==
    {[family |-> family, motorHp |-> motorHp, voltage |-> voltage,
      sealType |-> sealType, material |-> material, mount |-> mount,
      impeller |-> "IMP-100-S", atex |-> atex] :
        family \in {Undef, "P100"},
        motorHp \in {0, 30, 31, 49, 50, 75, 76, 100},
        voltage \in {Undef, "230V_1ph", "460V_3ph"},
        sealType \in {Undef, "Packing", "Mechanical"},
        material \in {Undef, "CastIron", "Stainless"},
        mount \in {Undef, "CloseCoupled", "Base"},
        atex \in BOOLEAN}

\* A call that has not been made yet.
ToolCall(requirements, config) ==
    [fn |-> "none", requirements |-> requirements, config |-> config, out |-> Null]

ToolsInit ==
    /\ state = newAgentState(CHOOSE customer \in CustomerSeeds : customer.name = Undef
                                                                /\ customer.company = Undef)
    /\ result = Response("none", "", FALSE)
    /\ peer = Null
    /\ workflow = Null
    /\ \/ \E requirements \in SelectorRequirements : tool = ToolCall(requirements, Null)
       \/ \E requirements \in ValidatorRequirements, config \in ValidatorConfigs :
             tool = ToolCall(requirements, config)

\* The selectConfiguration activity is called.
SelectConfiguration ==
    /\ tool.fn = "none"
    /\ tool.config = Null
    /\ tool' = [tool EXCEPT !.fn = "selectConfiguration",
                            !.out = selectConfiguration(tool.requirements)]
    /\ UNCHANGED <<state, result, peer, workflow>>

\* ReActAgent.proposeConfiguration builds its configuration: the agent
\* calls it with the seven requirements present.
ProposeConfiguration ==
    /\ tool.fn = "none"
    /\ tool.config = Null
    /\ \A f \in ReqFields : Truthy(f, tool.requirements[f])
    /\ tool' = [tool EXCEPT !.fn = "proposeConfiguration",
                            !.out = proposedConfig(tool.requirements)]
    /\ UNCHANGED <<state, result, peer, workflow>>

\* validateConfiguration is called.
ValidateConfiguration ==
    /\ tool.fn = "none"
    /\ tool.config # Null
    /\ tool' = [tool EXCEPT !.fn = "validateConfiguration",
                            !.out = validateConfiguration(tool.config, tool.requirements)]
    /\ UNCHANGED <<state, result, peer, workflow>>

ToolsNext == SelectConfiguration \/ ProposeConfiguration \/ ValidateConfiguration

SpecTools == ToolsInit /\ [][ToolsNext]_vars

\* The Configuration Selector has returned.
selected == tool.fn \in {"selectConfiguration", "proposeConfiguration"}

\* Row i of the flow/head map holds the requested flow and head.
inRow(i, requirements) ==
    /\ flowHeadMap[i].gpmMin <= requirements.gpm
    /\ requirements.gpm <= flowHeadMap[i].gpmMax
    /\ flowHeadMap[i].headMin <= requirements.headFt
    /\ requirements.headFt <= flowHeadMap[i].headMax

\* The configuration out has the family, motor power and impeller of row i.
isRow(out, i) ==
    /\ out.family = flowHeadMap[i].family
    /\ out.motorHp = flowHeadMap[i].motorHp
    /\ out.impeller = flowHeadMap[i].impellerCode

C25_FallbackIsFirstRow ==
    (selected /\ \A i \in 1..Len(flowHeadMap) : ~inRow(i, tool.requirements))
        => isRow(tool.out, 1)

\* C26: the configuration the selectConfiguration activity and
\* proposeConfiguration return for complete requirements has the voltage
\* that the requirements give as available.
C26_VoltageIsPowerAvailable ==
    (selected /\ \A f \in ReqFields : Truthy(f, tool.requirements[f]))
        => tool.out.voltage = tool.requirements.powerAvailable

\* C27: the material the selectConfiguration activity and
\* proposeConfiguration return is the preferred one when a preference is
\* given, and otherwise Stainless for ATEX and CastIron for the rest.
C27_MaterialIsPreference ==
    selected =>
        tool.out.material =
            IF Truthy("materialPref", tool.requirements.materialPref)
            THEN tool.requirements.materialPref
            ELSE IF tool.requirements.environment = "ATEX" THEN "Stainless" ELSE "CastIron"

\* The rules of the rule set that the configuration violates, each with the
\* message of its violation.
violatedRules(config, requirements) ==
    {m \in {"Pump family is required", "Motor HP is required", "Voltage is required",
            "Seal type is required", "Material is required", "Mount type is required",
            "230V 1-phase requires Motor HP <= 3", "460V 3-phase requires Motor HP >= 5",
            "Close coupled mount requires Motor HP <= 7.5",
            "ATEX compliance requires: Stainless material, Mechanical seal, 460V 3-phase, Base mount, and Motor HP >= 5"} :
        CASE m = "Pump family is required" -> config.family \in {Undef, Empty}
          [] m = "Motor HP is required" -> config.motorHp = 0
          [] m = "Voltage is required" -> config.voltage \in {Undef, Empty}
          [] m = "Seal type is required" -> config.sealType \in {Undef, Empty}
          [] m = "Material is required" -> config.material \in {Undef, Empty}
          [] m = "Mount type is required" -> config.mount \in {Undef, Empty}
          [] m = "230V 1-phase requires Motor HP <= 3" ->
                 config.voltage = "230V_1ph" /\ ~(config.motorHp <= 30)
          [] m = "460V 3-phase requires Motor HP >= 5" ->
                 config.voltage = "460V_3ph" /\ ~(config.motorHp >= 50)
          [] m = "Close coupled mount requires Motor HP <= 7.5" ->
                 config.mount = "CloseCoupled" /\ ~(config.motorHp <= 75)
          [] OTHER ->
                 /\ requirements.environment = "ATEX" /\ config.atex
                 /\ ~ /\ config.material = "Stainless"
                      /\ config.sealType = "Mechanical"
                      /\ config.voltage = "460V_3ph"
                      /\ config.mount = "Base"
                      /\ config.motorHp >= 50}

\* The violation messages of a ValidationResult, as a set.
messages(validation) == {validation.violations[i] : i \in 1..Len(validation.violations)}

\* C28: validateConfiguration reports every violated rule of the rule set,
\* each once and nothing else, and isValid is true exactly when no rule is
\* violated.
C28_AllViolationsReported ==
    tool.fn = "validateConfiguration" =>
        LET rules == violatedRules(tool.config, tool.requirements)
        IN  /\ messages(tool.out) = rules
            /\ Len(tool.out.violations) = Cardinality(rules)
            /\ tool.out.isValid <=> rules = {}

\* C28 witness: a configuration that violates the 460V rule, the mount rule
\* and the ATEX rule at once, and misses a field.
C28_Witness ==
    /\ tool.fn = "validateConfiguration"
    /\ Len(tool.out.violations) >= 4
    /\ "Pump family is required" \in messages(tool.out)
    /\ "460V 3-phase requires Motor HP >= 5" \in messages(tool.out)
    /\ "ATEX compliance requires: Stainless material, Mechanical seal, 460V 3-phase, Base mount, and Motor HP >= 5"
           \in messages(tool.out)

\* C29: the thresholds are inclusive: the 230V violation is reported
\* exactly for a 230V_1ph configuration above 3 HP, the 460V violation
\* exactly for a 460V_3ph configuration below 5 HP, the mount violation
\* exactly for a CloseCoupled mount above 7.5 HP.
C29_ThresholdsInclusive ==
    tool.fn = "validateConfiguration" =>
        /\ "230V 1-phase requires Motor HP <= 3" \in messages(tool.out)
               <=> (tool.config.voltage = "230V_1ph" /\ tool.config.motorHp > 30)
        /\ "460V 3-phase requires Motor HP >= 5" \in messages(tool.out)
               <=> (tool.config.voltage = "460V_3ph" /\ tool.config.motorHp < 50)
        /\ "Close coupled mount requires Motor HP <= 7.5" \in messages(tool.out)
               <=> (tool.config.mount = "CloseCoupled" /\ tool.config.motorHp > 75)

\* C29 witness: a CloseCoupled 460V_3ph configuration of exactly 7.5 HP is
\* valid.
C29_Witness ==
    /\ tool.fn = "validateConfiguration"
    /\ tool.config.motorHp = 75
    /\ tool.config.mount = "CloseCoupled"
    /\ tool.config.voltage = "460V_3ph"
    /\ tool.out.isValid

\* How many of the five ATEX conditions the configuration fails.
atexFailures(config) ==
    Cardinality({c \in {"material", "sealType", "voltage", "mount", "motorHp"} :
        CASE c = "material" -> config.material # "Stainless"
          [] c = "sealType" -> config.sealType # "Mechanical"
          [] c = "voltage" -> config.voltage # "460V_3ph"
          [] c = "mount" -> config.mount # "Base"
          [] OTHER -> config.motorHp < 50})

\* The ATEX violation messages of a ValidationResult.
atexViolations(validation) ==
    SelectSeq(validation.violations,
              LAMBDA m : m = "ATEX compliance requires: Stainless material, Mechanical seal, 460V 3-phase, Base mount, and Motor HP >= 5")

\* C30: for an ATEX environment and a configuration with atex set,
\* validateConfiguration reports one ATEX violation when one or more of the
\* five ATEX conditions fail and none when all five hold.
C30_OneCombinedAtexViolation ==
    (/\ tool.fn = "validateConfiguration"
     /\ tool.requirements.environment = "ATEX"
     /\ tool.config.atex)
        => Len(atexViolations(tool.out)) = IF atexFailures(tool.config) > 0 THEN 1 ELSE 0

\* C30 witness: all five ATEX conditions fail and one ATEX violation is
\* reported.
C30_Witness ==
    /\ tool.fn = "validateConfiguration"
    /\ tool.requirements.environment = "ATEX"
    /\ tool.config.atex
    /\ atexFailures(tool.config) = 5
    /\ Len(atexViolations(tool.out)) = 1

(***************************************************************************)
(* quoteWorkflow (src/src/workflows/quote.workflow.ts).  One execution is  *)
(* modelled.  workflow.pc is the await the workflow function is suspended  *)
(* at: an activity (called with workflow.args, the arguments evaluated at  *)
(* the call) or the condition; a signal handler runs at any of them.       *)
(* validated and priced are the arguments of the validateConfiguration and *)
(* generatePricing calls that returned (the activity inputs of the         *)
(* workflow history); elapsed is the seconds spent in the condition.       *)
(***************************************************************************)

\* The timeout of condition(() => state.isApproved, '5s'), in seconds.
WaitWindow == 5

\* Bound of the model: how many signals are sent to one execution.
MaxSignals == 2

\* state.configuration = {}.
EmptyConfig ==
    [family |-> Undef, motorHp |-> 0, voltage |-> Undef, sealType |-> Undef,
     material |-> Undef, mount |-> Undef, impeller |-> Undef, atex |-> FALSE]

\* { ...base, ...updates }: the keys of updates replace those of base.
spread(base, updates) ==
    [key \in DOMAIN base |-> IF key \in DOMAIN updates THEN updates[key] ELSE base[key]]

\* params.initialRequirements: none, the requirements of scenarios 1 and 3,
\* and an ATEX site with the flow and head of scenario 1.
InitialRequirements ==
    {[f \in ReqFields |-> Absent(f)],
     [gpm |-> 40, headFt |-> 60, fluid |-> "water", powerAvailable |-> "230V_1ph",
      environment |-> "non-ATEX", materialPref |-> "CastIron", maintenanceBias |-> "budget"],
     [gpm |-> 120, headFt |-> 150, fluid |-> "hydrocarbon", powerAvailable |-> "460V_3ph",
      environment |-> "ATEX", materialPref |-> "Stainless",
      maintenanceBias |-> "low maintenance"],
     [gpm |-> 40, headFt |-> 60, fluid |-> "hydrocarbon", powerAvailable |-> "460V_3ph",
      environment |-> "ATEX", materialPref |-> "Stainless",
      maintenanceBias |-> "low maintenance"]}

\* The payloads of the updateRequirements and updateConfiguration signals.
RequirementUpdates == {[environment |-> "ATEX"], [gpm |-> 120, headFt |-> 150]}
ConfigurationUpdates == {[motorHp |-> 100], [voltage |-> "230V_1ph"]}

\* The collectRequirements activity: a default for every key that the
\* initial requirements lack.
collectRequirements(initialRequirements) ==
    [f \in ReqFields |->
        IF initialRequirements[f] # Absent(f) THEN initialRequirements[f]
        ELSE CASE f = "gpm" -> 0
               [] f = "headFt" -> 0
               [] f = "fluid" -> "water"
               [] f = "powerAvailable" -> "460V_3ph"
               [] f = "environment" -> "non-ATEX"
               [] f = "materialPref" -> "CastIron"
               [] f = "maintenanceBias" -> "budget"]

\* The activities, in the order the workflow calls them.
Activities ==
    {"collectRequirements", "selectConfiguration", "validateConfiguration",
     "generateBOM", "generatePricing", "persistCanvas"}

\* The workflow function up to its first await.
WorkflowInit ==
    /\ state = newAgentState(CHOOSE customer \in CustomerSeeds : customer.name = Undef
                                                                /\ customer.company = Undef)
    /\ result = Response("none", "", FALSE)
    /\ peer = Null
    /\ tool = Null
    /\ \E initialRequirements \in InitialRequirements :
          workflow = [pc |-> "collectRequirements",
                      args |-> initialRequirements,
                      requirements |-> initialRequirements,
                      configuration |-> EmptyConfig,
                      validation |-> Null,
                      pricing |-> Null,
                      canvas |-> Null,
                      isApproved |-> FALSE,
                      validated |-> Null,
                      priced |-> Null,
                      elapsed |-> 0,
                      signals |-> 0]

\* The workflow wf suspended at the call of an activity with arguments args.
call(wf, activity, args) == [wf EXCEPT !.pc = activity, !.args = args]

\* Step 1 returns; step 2 is called.
CollectReturns ==
    /\ workflow.pc = "collectRequirements"
    /\ LET requirements == collectRequirements(workflow.args)
       IN  workflow' = call([workflow EXCEPT !.requirements = requirements],
                            "selectConfiguration", requirements)
    /\ UNCHANGED <<state, result, peer, tool>>

\* Step 2 returns; step 3 is called with the configuration and the
\* requirements of that moment.
SelectReturns ==
    /\ workflow.pc = "selectConfiguration"
    /\ LET configuration == selectConfiguration(workflow.args)
       IN  workflow' = call([workflow EXCEPT !.configuration = configuration],
                            "validateConfiguration",
                            [config |-> configuration, requirements |-> workflow.requirements])
    /\ UNCHANGED <<state, result, peer, tool>>

\* Step 3 returns: the workflow waits in the condition when the result is
\* invalid, and calls generateBOM when it is valid.
ValidateReturns ==
    /\ workflow.pc = "validateConfiguration"
    /\ LET validation == validateConfiguration(workflow.args.config, workflow.args.requirements)
           wf == [workflow EXCEPT !.validation = validation, !.validated = workflow.args]
       IN  workflow' = IF ~validation.isValid
                       THEN [wf EXCEPT !.pc = "waiting", !.args = Null, !.elapsed = 0]
                       ELSE call(wf, "generateBOM", wf.configuration)
    /\ UNCHANGED <<state, result, peer, tool>>

\* A second passes while the workflow waits in the condition.
Tick ==
    /\ workflow.pc = "waiting"
    /\ workflow.elapsed < WaitWindow
    /\ workflow' = [workflow EXCEPT !.elapsed = @ + 1]
    /\ UNCHANGED <<state, result, peer, tool>>

\* Mutant of conditionResolved: the condition has no timeout.
conditionResolved_NoTimeout(wf) == wf.isApproved

\* condition(() => state.isApproved, '5s') resolves: the predicate holds, or
\* the five seconds are over.
conditionResolved(wf) == wf.isApproved \/ wf.elapsed = WaitWindow

\* The condition resolves and step 4 begins.
WaitEnds ==
    /\ workflow.pc = "waiting"
    /\ conditionResolved(workflow)
    /\ workflow' = call(workflow, "generateBOM", workflow.configuration)
    /\ UNCHANGED <<state, result, peer, tool>>

\* generateBOM returns (its result is not used); generatePricing is called.
BOMReturns ==
    /\ workflow.pc = "generateBOM"
    /\ workflow' = call(workflow, "generatePricing", workflow.configuration)
    /\ UNCHANGED <<state, result, peer, tool>>

\* generatePricing returns; the canvas is built from the state of that
\* moment and persistCanvas is called.
PricingReturns ==
    /\ workflow.pc = "generatePricing"
    /\ LET pricing == calculatePricing(workflow.args)
           canvas == [requirements |-> workflow.requirements,
                      configuration |-> workflow.configuration,
                      rationale |-> workflow.validation.suggestion,
                      bom |-> pricing.bom,
                      pricing |-> pricing]
       IN  workflow' = call([workflow EXCEPT !.pricing = pricing, !.priced = workflow.args,
                                             !.canvas = canvas],
                            "persistCanvas", canvas)
    /\ UNCHANGED <<state, result, peer, tool>>

\* persistCanvas returns and the workflow returns the canvas.
PersistReturns ==
    /\ workflow.pc = "persistCanvas"
    /\ workflow' = [workflow EXCEPT !.pc = "returned", !.args = Null]
    /\ UNCHANGED <<state, result, peer, tool>>

\* The activity the workflow awaits fails (no worker takes it within the
\* scheduleToStartTimeout): the workflow rethrows.
ActivityFails ==
    /\ workflow.pc \in Activities
    /\ workflow' = [workflow EXCEPT !.pc = "failed", !.args = Null]
    /\ UNCHANGED <<state, result, peer, tool>>

\* The workflow still runs and takes a signal.
takesSignal == workflow.pc \notin {"returned", "failed"} /\ workflow.signals < MaxSignals

\* The handler of the updateRequirements signal.
UpdateRequirements ==
    /\ takesSignal
    /\ \E updates \in RequirementUpdates :
          workflow' = [workflow EXCEPT !.requirements = spread(@, updates),
                                       !.signals = @ + 1]
    /\ UNCHANGED <<state, result, peer, tool>>

\* The handler of the updateConfiguration signal.
UpdateConfiguration ==
    /\ takesSignal
    /\ \E updates \in ConfigurationUpdates :
          workflow' = [workflow EXCEPT !.configuration = spread(@, updates),
                                       !.signals = @ + 1]
    /\ UNCHANGED <<state, result, peer, tool>>

\* The handler of the approveConfiguration signal.
ApproveConfiguration ==
    /\ takesSignal
    /\ \E approved \in BOOLEAN :
          workflow' = [workflow EXCEPT !.isApproved = approved, !.signals = @ + 1]
    /\ UNCHANGED <<state, result, peer, tool>>

WorkflowNext ==
    \/ CollectReturns
    \/ SelectReturns
    \/ ValidateReturns
    \/ Tick
    \/ WaitEnds
    \/ BOMReturns
    \/ PricingReturns
    \/ PersistReturns
    \/ ActivityFails
    \/ UpdateRequirements
    \/ UpdateConfiguration
    \/ ApproveConfiguration

\* Time passes and the timer of the condition fires; nothing is assumed of
\* the activities and the signals.
SpecWorkflow ==
    /\ WorkflowInit
    /\ [][WorkflowNext]_vars
    /\ WF_vars(Tick)
    /\ WF_vars(WaitEnds)

\* C21: the workflow waits in the condition only after an invalid
\* validation and for five seconds at most; it leaves the wait only when
\* approval is signalled or the five seconds are over, always for step 4
\* (generateBOM, then pricing, canvas and persistence); every wait ends; and
\* after a valid validation step 4 follows without the wait.
C21_BoundedApprovalWait ==
    /\ [](workflow.pc = "waiting"
            => ~workflow.validation.isValid /\ workflow.elapsed <= WaitWindow)
    /\ [][workflow.pc = "waiting" /\ workflow'.pc # "waiting"
            => /\ workflow'.pc = "generateBOM"
               /\ workflow.isApproved \/ workflow.elapsed = WaitWindow]_vars
    /\ [][workflow.pc = "validateConfiguration" /\ workflow'.validation # Null
                                                /\ workflow'.validation.isValid
            => workflow'.pc = "generateBOM"]_vars
    /\ (workflow.pc = "waiting") ~> (workflow.pc = "generateBOM")

\* C21 witness: the workflow has returned the canvas of an invalid
\* configuration after the five seconds, approval having been signalled
\* false and never true.
C21_Witness ==
    /\ workflow.pc = "returned"
    /\ ~workflow.validation.isValid
    /\ workflow.elapsed = WaitWindow
    /\ ~workflow.isApproved
    /\ workflow.signals > 0
    /\ workflow.canvas # Null

\* C22: the configuration that was priced and the configuration and
\* requirements of the returned canvas are those the recorded
\* ValidationResult was computed for.
C22_ValidationNeverStale ==
    workflow.pc = "returned" =>
        /\ workflow.validated.config = workflow.priced
        /\ workflow.validated.config = workflow.canvas.configuration
        /\ workflow.validated.requirements = workflow.canvas.requirements

(***************************************************************************)
(* The two selectors side by side, and the signals of the workflow while   *)
(* an activity is in flight.                                               *)
(***************************************************************************)

\* C39: for a complete set of requirements ReActAgent.proposeConfiguration
\* returns the configuration that the selectConfiguration activity returns
\* for the same requirements.
C39_SelectorsAgree ==
    tool.fn = "proposeConfiguration" => tool.out = selectConfiguration(tool.requirements)

\* C40: no signalled update is lost to the return of an activity.  When
\* collectRequirements returns, every requirement that a signal changed
\* while it ran is in the requirements passed to selectConfiguration; when
\* selectConfiguration returns, every configuration key that a signal set
\* while it ran is still in the configuration (which is then validated and
\* priced).
C40_NoSignalLost ==
    [][/\ workflow.pc = "collectRequirements" /\ workflow'.pc = "selectConfiguration"
            => \A f \in ReqFields :
                  workflow.requirements[f] # workflow.args[f]
                      => workflow'.args[f] = workflow.requirements[f]
       /\ workflow.pc = "selectConfiguration" /\ workflow'.pc = "validateConfiguration"
            => \A key \in DOMAIN EmptyConfig :
                  workflow.configuration[key] # EmptyConfig[key]
                      => workflow'.configuration[key] = workflow.configuration[key]]_vars

(***************************************************************************)
(* The session again: failed steps, the recursion of think, the frozen     *)
(* requirements and configuration, and the way to the end.                 *)
(***************************************************************************)

\* C38: a step that returns the error result leaves the phase as it was
\* before the step.
C38_ErrorKeepsPhase ==
    [][result'.response.action = "error" => state'.phase = state.phase]_vars

\* A reply whose payload carries the one field f with value v.
FieldReply(f, v) ==
    [reply |-> "json", payload |-> [EmptyPayload EXCEPT ![f] = v], personal |-> FALSE]

rethink_Restless(st) ==
    CASE st.phase = "gathering" ->
           IF ~Truthy("name", st.customer.name) /\ ~hasAskedForName(st) THEN Null
           ELSE [st EXCEPT !.phase = "customer_info"]
      [] st.phase = "customer_info" ->
           IF ~Truthy("name", st.customer.name) THEN Null
           ELSE [st EXCEPT !.phase = "gathering"]
      [] OTHER -> Null

\* The two `return this.think()` of think: the state after the phase
\* switch that think(st) evaluates itself again on, or Null when think(st)
\* returns an action without evaluating itself again.
rethink(st) ==
    CASE st.phase = "gathering" ->
           IF /\ Truthy("name", st.customer.name) \/ hasAskedForName(st)
              /\ Len(getMissingRequirements(st)) = 0
              /\ ~hasContactInfo(st)
           THEN [st EXCEPT !.phase = "customer_info"]
           ELSE Null
      [] st.phase = "customer_info" ->
           IF /\ Len(getMissingCustomerInfo(st)) = 0
              /\ Len(getMissingRequirements(st)) > 0
           THEN [st EXCEPT !.phase = "gathering"]
           ELSE Null
      [] OTHER -> Null

\* The states think() is called on in the two asking phases: every customer
\* seed and every set of customer items and requirements gathered so far,
\* the name question asked or not.
ThinkStates ==
    {[newAgentState([name |-> name, company |-> company, email |-> email,
                     phone |-> phone])
        EXCEPT !.requirements = [f \in ReqFields |->
                                    IF f \in known
                                    THEN CHOOSE v \in FieldValues(f) : Truthy(f, v)
                                    ELSE Absent(f)],
               !.askedName = askedName,
               !.phase = phase] :
        name \in {Undef} \cup FieldValues("name"),
        company \in {Undef, Empty} \cup FieldValues("company"),
        email \in {Undef} \cup FieldValues("email"),
        phone \in {Undef} \cup FieldValues("phone"),
        known \in SUBSET ReqFields, askedName \in BOOLEAN,
        phase \in {"gathering", "customer_info"}}

\* One call of think(): `tool` holds the state it is called on and, once
\* it has returned, the state and the action it returned.
ThinkInit ==
    /\ state = newAgentState(CHOOSE customer \in CustomerSeeds : customer.name = Undef
                                                                /\ customer.company = Undef)
    /\ result = Response("none", "", FALSE)
    /\ peer = Null
    /\ workflow = Null
    /\ \E st \in ThinkStates : tool = [fn |-> "none", st |-> st, out |-> Null]

\* think() runs and returns.
Think ==
    /\ tool.fn = "none"
    /\ tool' = [tool EXCEPT !.fn = "think", !.out = think(tool.st)]
    /\ UNCHANGED <<state, result, peer, workflow>>

ThinkNext == Think

SpecThink == ThinkInit /\ [][ThinkNext]_vars

\* C36: think() evaluates itself again after a phase switch at most once:
\* on the state it evaluates itself again on, it returns a question without
\* a further phase switch and re-evaluation, so it cannot alternate between
\* gathering and customer_info.
C36_ThinkRethinksOnce ==
    (tool.fn = "think" /\ rethink(tool.st) # Null)
       => /\ rethink(rethink(tool.st)) = Null
          /\ tool.out = think(rethink(tool.st))
          /\ tool.out.st = rethink(tool.st)
          /\ tool.out.thought.action \in {"ask_customer_info", "ask_requirement"}

\* C36 witness: think() was called in customer_info with every customer
\* item known and requirements missing; it went back to gathering and
\* returned a requirement question.
C36_Witness ==
    /\ tool.fn = "think"
    /\ tool.st.phase = "customer_info"
    /\ rethink(tool.st) # Null
    /\ tool.out.st.phase = "gathering"
    /\ tool.out.thought.action = "ask_requirement"

(***************************************************************************)
(* The cooperative session: the provider never fails and the user answers  *)
(* every question with the item that was asked for.  The caller does what  *)
(* the CLI loop does: step() to go on, step(userInput) after a question.   *)
(***************************************************************************)

\* The last step asked a question.
asked == result.response.action \in {"ask_customer_info", "ask_requirement"}

\* The fields that answer the question about item: the e-mail address or
\* the phone number for 'email_or_phone', the item itself otherwise.
answers(item) == IF item = "email_or_phone" THEN {"email", "phone"} ELSE {item}

\* What the extraction gives for an answer to the question about item:
\* the item that was asked for, alone or with one more item.
Answers(item) ==
    LET alone == UNION {{FieldReply(f, v) : v \in FieldValues(f)} : f \in answers(item)}
        more(llm) == UNION {{[llm EXCEPT !.payload[g] = w] : w \in FieldValues(g)} :
                               g \in AllFields \ answers(item)}
    IN  alone \cup UNION {more(llm) : llm \in alone}

\* The user answers the question of the last step: step(userInput), the
\* extraction giving the item that was asked for.
Reply ==
    /\ asked
    /\ \E llm \in Answers(result.response.param) : step("text", llm, "ok", FALSE)
    /\ UNCHANGED <<peer, tool, workflow>>

\* The caller goes on without a message: step().
Continue ==
    /\ ~asked
    /\ step(None, FieldReply("gpm", 0), "ok", FALSE)
    /\ UNCHANGED <<peer, tool, workflow>>

CooperativeNext == Reply \/ Continue

\* The caller keeps calling step.
SpecCooperative ==
    /\ Init
    /\ [][CooperativeNext]_vars
    /\ WF_vars(Reply)
    /\ WF_vars(Continue)

\* C35: the cooperative session eventually reaches the phase complete and
\* a step returns done = true, for a valid and for an invalid
\* configuration.
C35_CooperativeSessionCompletes ==
    <>(state.phase = "complete" /\ result.done)

\* C35 witness: a step has returned done = true in the phase complete after
\* an invalid validation.
C35_Witness ==
    /\ state.phase = "complete"
    /\ result.done
    /\ state.validationResult # Null
    /\ ~state.validationResult.isValid

(***************************************************************************)
(* calculatePricing with its prices.  A JavaScript number that is an       *)
(* amount of money is kept in thousandths of a dollar (1000 is $1), so     *)
(* that toFixed(2) is a rounding; a discount is kept in halves of a        *)
(* percent (25 is 12.5 %, 40 is 20 %).  `tool` holds one call, as for the  *)
(* other tools: the configuration, the optional arguments (args, the       *)
(* discount when it is passed) and what the call returned.                 *)
(***************************************************************************)

\* DataStore.bomRules: the price tables with the keys calculatePricing
\* looks up, priced so that the three scenarios total $1765, $2385 and
\* $5415 and the ATEX package is $1000.
bomRules ==
    [base_components |->
         [P100 |-> [CastIron |-> 800 * 1000, Stainless |-> 1200 * 1000],
          P200 |-> [CastIron |-> 1500 * 1000, Stainless |-> 2000 * 1000]],
     impellers |-> ("IMP-100-S" :> 200 * 1000) @@ ("IMP-120-M" :> 320 * 1000)
                   @@ ("IMP-180-XL" :> 600 * 1000) @@ ("IMP-200-XL" :> 800 * 1000),
     motors |-> (<<30, "230V_1ph">> :> 400 * 1000) @@ (<<50, "460V_3ph">> :> 700 * 1000)
                @@ (<<75, "460V_3ph">> :> 900 * 1000) @@ (<<100, "460V_3ph">> :> 1100 * 1000)
                @@ (<<150, "460V_3ph">> :> 1500 * 1000),
     seal_kits |-> (<<"Packing", "CastIron">> :> 100 * 1000)
                   @@ (<<"Packing", "Stainless">> :> 150 * 1000)
                   @@ (<<"Mechanical", "CastIron">> :> 300 * 1000)
                   @@ (<<"Mechanical", "Stainless">> :> 350 * 1000),
     mounts |-> [CloseCoupled |-> 100 * 1000, Base |-> 200 * 1000],
     coupling |-> 100 * 1000,
     atex |-> 1000 * 1000,
     fasteners |-> 25 * 1000,
     finish |-> 40 * 1000]

\* The table and the key of each of the four lines that calculatePricing
\* adds under `if (entry)`.
lookups(config) ==
    [impeller |-> [table |-> bomRules.impellers, key |-> config.impeller],
     motor    |-> [table |-> bomRules.motors, key |-> <<config.motorHp, config.voltage>>],
     seal_kit |-> [table |-> bomRules.seal_kits, key |-> <<config.sealType, config.material>>],
     mount    |-> [table |-> bomRules.mounts, key |-> config.mount]]

\* Mutant of bomLine: the line counts two pieces at the price of one.
bomLine_Pair(component, price) ==
    [sku |-> component, quantity |-> 2, unitPrice |-> price, extendedPrice |-> price]

\* A BOMItem as calculatePricing pushes it.
bomLine(component, price) ==
    [sku |-> component, quantity |-> 1, unitPrice |-> price, extendedPrice |-> price]

\* `const entry = table[key]; if (entry) { bom.push(...) }`: the line, or
\* nothing when the table has no such key.
optionalLine(config, component) ==
    LET l == lookups(config)[component]
    IN  IF l.key \in DOMAIN l.table THEN <<bomLine(component, l.table[l.key])>> ELSE <<>>

\* `listTotal += entry.price` under the same `if (entry)`.
optionalPrice(config, component) ==
    LET l == lookups(config)[component]
    IN  IF l.key \in DOMAIN l.table THEN l.table[l.key] ELSE 0

\* Mutant of atexLine: the ATEX package is on every bill.
atexLine_Always(config) == <<bomLine("atex", bomRules.atex)>>

\* `if (config.atex) { bom.push(...) }`.
atexLine(config) == IF config.atex THEN <<bomLine("atex", bomRules.atex)>> ELSE <<>>

\* parseFloat(x.toFixed(2)): x rounded to the cent, the half cent upwards.
toFixed(x) == ((x + 5) \div 10) * 10

\* Mutant of netOf: the fraction of a cent is cut off.
netOf_Truncated(listTotal, discountPercent) ==
    ((listTotal * (200 - discountPercent)) \div 2000) * 10

\* parseFloat((listTotal * (1 - discountPercent / 100)).toFixed(2)), the
\* discount in halves of a percent.
netOf(listTotal, discountPercent) ==
    ((listTotal * (200 - discountPercent) + 1000) \div 2000) * 10

\* calculatePricing(config, discountPercent = default_discount_pct) of the
\* tools module with its prices.  args is <<>> or <<discountPercent>>.
\* Reading unit_price[config.family][config.material] throws a TypeError
\* when the table has no such family.
calculatePricingWith(config, args) ==
    IF config.family \notin DOMAIN bomRules.base_components THEN [threw |-> TRUE]
    ELSE LET discountPercent == IF Len(args) > 0 THEN args[1] ELSE 2 * DEFAULT_DISCOUNT
             basePrice == bomRules.base_components[config.family][config.material]
             listTotal == basePrice
                          + optionalPrice(config, "impeller")
                          + optionalPrice(config, "motor")
                          + optionalPrice(config, "seal_kit")
                          + optionalPrice(config, "mount")
                          + bomRules.coupling
                          + (IF config.atex THEN bomRules.atex ELSE 0)
                          + bomRules.fasteners
                          + bomRules.finish
         IN  [threw |-> FALSE,
              listTotal |-> toFixed(listTotal),
              discountPercent |-> discountPercent,
              netTotal |-> netOf(listTotal, discountPercent),
              bom |-> <<bomLine("base", basePrice)>>
                      \o optionalLine(config, "impeller")
                      \o optionalLine(config, "motor")
                      \o optionalLine(config, "seal_kit")
                      \o optionalLine(config, "mount")
                      \o <<bomLine("coupling", bomRules.coupling)>>
                      \o atexLine(config)
                      \o <<bomLine("fasteners", bomRules.fasteners),
                           bomLine("finish", bomRules.finish)>>]

\* The PumpConfigurations calculatePricing is called with: the families,
\* impellers and motors of the three scenarios, a family, an impeller code
\* and motors that the price tables do not hold, and every seal type,
\* material and mount of the type.
PricingConfigs ==
    {[family |-> family, motorHp |-> motorHp, voltage |-> voltage,
      sealType |-> sealType, material |-> material, mount |-> mount,
      impeller |-> impeller, atex |-> atex] :
        family \in {"P100", "P200", "P300"},
        motorHp \in {30, 50, 100},
        voltage \in {"230V_1ph", "460V_3ph"},
        sealType \in {"Packing", "Mechanical"},
        material \in {"CastIron", "Stainless"},
        mount \in {"CloseCoupled", "Base"},
        impeller \in {"IMP-100-S", "IMP-180-XL", "IMP-100-XS"},
        atex \in BOOLEAN}

\* The discounts passed to calculatePricing: none, 12.5 %, 15 %, 20 % and
\* all of the price.
Discounts == {0, 25, 30, 40, 200}

PricingInit ==
    /\ state = newAgentState(CHOOSE customer \in CustomerSeeds : customer.name = Undef
                                                                /\ customer.company = Undef)
    /\ result = Response("none", "", FALSE)
    /\ peer = Null
    /\ workflow = Null
    /\ \E config \in PricingConfigs, args \in {<<>>} \cup {<<d>> : d \in Discounts} :
          tool = [fn |-> "none", config |-> config, args |-> args, out |-> Null]

\* calculatePricing is called.
CalculatePricing ==
    /\ tool.fn = "none"
    /\ tool' = [tool EXCEPT !.fn = "calculatePricing",
                            !.out = calculatePricingWith(tool.config, tool.args)]
    /\ UNCHANGED <<state, result, peer, workflow>>

PricingNext == CalculatePricing

SpecPricing == PricingInit /\ [][PricingNext]_vars

\* calculatePricing has returned a Pricing.
priced == tool.fn = "calculatePricing" /\ ~tool.out.threw

\* The price-table keys of the configuration that the tables do not hold.
missingKeys(config) ==
    {component \in DOMAIN lookups(config) :
        lookups(config)[component].key \notin DOMAIN lookups(config)[component].table}
    \cup (IF config.family \in DOMAIN bomRules.base_components THEN {} ELSE {"base"})

\* C31: when a price-table key of the configuration is missing (base
\* family and material, impeller code, motor power and voltage, seal type
\* and material, or mount), calculatePricing fails with an error.
C31_MissingKeyFails ==
    (tool.fn = "calculatePricing" /\ missingKeys(tool.config) # {}) => tool.out.threw

\* C32: the returned netTotal is the returned listTotal times
\* (1 - discountPercent/100) rounded to the cent (the half cent upwards),
\* for every discount; the discount is the one passed, and the default one
\* when none is passed.
C32_NetIsDiscountedList ==
    priced =>
        LET out == tool.out
            exact == out.listTotal * (200 - out.discountPercent)
        IN  /\ out.discountPercent = IF tool.args = <<>> THEN 2 * DEFAULT_DISCOUNT
                                     ELSE tool.args[1]
            /\ out.netTotal % 10 = 0
            /\ 200 * out.netTotal - exact > -1000
            /\ 200 * out.netTotal - exact <= 1000

\* C32 witness: a discount of 12.5 % was passed and the net total was
\* rounded to the cent.
C32_Witness ==
    /\ priced
    /\ tool.args = <<25>>
    /\ 200 * tool.out.netTotal # tool.out.listTotal * (200 - 25)

\* The lines of the bill for the component.
linesOf(bom, component) == {i \in 1..Len(bom) : bom[i].sku = component}

\* C33: the bill holds the ATEX line exactly when configuration.atex is
\* true, and listTotal is then the listTotal of the same configuration
\* without ATEX plus the price of the ATEX package.
C33_AtexLineIffAtex ==
    priced =>
        LET plain == calculatePricingWith([tool.config EXCEPT !.atex = FALSE], tool.args)
        IN  /\ linesOf(tool.out.bom, "atex") # {} <=> tool.config.atex
            /\ Cardinality(linesOf(tool.out.bom, "atex")) <= 1
            /\ \A i \in linesOf(tool.out.bom, "atex") :
                  tool.out.bom[i].extendedPrice = bomRules.atex
            /\ tool.out.listTotal = plain.listTotal
                                    + (IF tool.config.atex THEN bomRules.atex ELSE 0)

\* C33 witness: an ATEX configuration was priced.
C33_Witness ==
    /\ priced
    /\ tool.config.atex
    /\ linesOf(tool.out.bom, "atex") # {}

\* The sum of extendedPrice over the lines of the bill from line i on.
RECURSIVE sumExtended(_, _)
sumExtended(bom, i) ==
    IF i > Len(bom) THEN 0 ELSE bom[i].extendedPrice + sumExtended(bom, i + 1)

\* C34: every line of the returned bill has extendedPrice = quantity x
\* unitPrice, and the returned listTotal is the sum of extendedPrice over
\* exactly the lines of the returned bill.
C34_ListTotalIsSumOfLines ==
    priced =>
        /\ \A i \in 1..Len(tool.out.bom) :
              tool.out.bom[i].extendedPrice
                  = tool.out.bom[i].quantity * tool.out.bom[i].unitPrice
        /\ tool.out.listTotal = sumExtended(tool.out.bom, 1)

\* C34 witness: a bill was returned that lacks the motor line.
C34_Witness ==
    /\ priced
    /\ linesOf(tool.out.bom, "motor") = {}
    /\ linesOf(tool.out.bom, "impeller") # {}
    /\ tool.out.listTotal > 0

====
